---------------------------- MODULE Spec2Model ----------------------------
(***************************************************************************)
(* A model of the persistence operations of NVSL/cpp-common                *)
(* (include/nvsl/pmemops.hh and include/nvsl/pmemops/*.hh).                *)
(*                                                                         *)
(* A strategy object (PMemOpsClwb, PMemOpsClflushOpt, PMemOpsMsync,        *)
(* PMemOpsNoPersist) is called by a program on a mapped byte range.  The   *)
(* model keeps the mapped bytes, the build's feature macros, the position  *)
(* of the call that is running and the sequence of effects it has had      *)
(* (library copies and fills, calls of flush() and drain(), cache-line     *)
(* flush instructions, fences, msync calls, streaming stores).             *)
(*                                                                         *)
(* Every method is run statement by statement: `todo' holds the statements *)
(* still to run, a call of a method replaces the call by the method's body.*)
(* The diagnostic lines the methods hand to DBGH are not part of the       *)
(* model's state.                                                          *)
(*                                                                         *)
(* The library's other components have sections and specifications of     *)
(* their own: nvsl::split (string.hh), StatsScalar and StatsFreq           *)
(* (stats.hh) and Clock (clock.hh).                                        *)
(***************************************************************************)
EXTENDS Integers, Sequences, FiniteSets, TLC

VARIABLES
  strategy,         \* the dynamic type of the PMemOps object
  defined,          \* the feature macros defined in the build
  mem,              \* the mapped bytes written so far: address -> 0..255
  prog,             \* the calling program: one call, or the test's do_check
  check,            \* do_check's locals: the fill char, the size, the step
  op,               \* the method the program called
  args,             \* its arguments
  todo,             \* statements of the running call that are still to run
  pc,               \* position: idle, run, flush_loop, sw_test, sw_body, ret, exit
  uptr,             \* flush(): the loop variable
  remaining_bytes,  \* streaming_wr(): bytes still to write
  cur_off_bytes,    \* streaming_wr(): offset of the next chunk
  trace,            \* effects of the running call, in order
  err,              \* message of the fatal error the process exited with
  env,              \* the process's surroundings: NVSL_LOG_LEVEL, msync's answer
  threads,          \* the calls of the threads that share the object
  tok,              \* nvsl::split: its arguments, locals and result
  scalar,           \* a StatsScalar object and the samples it was given
  freq,             \* a StatsFreq object and the samples it was given
  clock             \* a Clock object and the calls made on it

\* what no step of a single-threaded PMemOps call changes
outside == <<env, threads, tok, scalar, freq, clock>>

vars == <<strategy, defined, mem, prog, check, op, args, todo, pc, uptr,
          remaining_bytes, cur_off_bytes, trace, err, env, threads, tok, scalar,
          freq, clock>>

---------------------------------------------------------------------------
(* Program constants *)

CL_SIZE == 64

SMALL_PG_SZ == 4096

MS_SYNC == 4

(* Bounds of the model *)

\* bytes of mapped memory
MemSize == 520

\* largest number of whole cache lines a flushed or filled range spans
MaxLines == 2

\* the mapping starts on a page boundary
MemBase == SMALL_PG_SZ

Addrs == MemBase .. (MemBase + MemSize - 1)

Strategies == {"Clwb", "ClflushOpt", "Msync", "NoPersist"}

\* The macros the code of each strategy tests.
Tested(s) ==
  CASE s = "Clwb"       -> {"CLWB_AVAIL", "SFENCE_AVAIL", "__AVX512F__", "__AVX__", "NDEBUG",
                            "RELEASE"}
    [] s = "ClflushOpt" -> {"CLFLUSHOPT_AVAIL", "SFENCE_AVAIL", "NDEBUG", "RELEASE"}
    [] OTHER            -> {"NDEBUG", "RELEASE"}

\* A build is described by the macros the strategy's code tests; a compiler
\* that defines __AVX512F__ defines __AVX__ too.
Builds(s) == {b \in SUBSET Tested(s) : "__AVX512F__" \in b => "__AVX__" \in b}

\* Memory before the program's first call: neighbouring bytes differ.
InitMem == [a \in Addrs |-> (a * 7 + 1) % 256]

\* The byte at address a: the last one written there, else the initial one.
Load(m, a) == IF a \in DOMAIN m THEN m[a] ELSE InitMem[a]

Ev(k, a, x, n) == [ev |-> k, addr |-> a, aux |-> x, size |-> n]

Stmt(k, a, x, n) == [st |-> k, addr |-> a, aux |-> x, size |-> n]

\* NVSL_LOG_LEVEL in the environment: not set, or set to a text that is not
\* a number, or set to the decimal text of a number
Unset == -1

Unparsable == -2

\* the surroundings a process can run in: msync's answer to a call the
\* kernel accepts (done, or failed), and the setting of NVSL_LOG_LEVEL
Envs(s) ==
  [msync : IF s = "Msync" THEN {0, -1} ELSE {0},
   NVSL_LOG_LEVEL : {Unset, Unparsable, 0, 4, 5}]

\* the other components of the library, untouched
NoThreads == << >>

NoTok == [pc |-> "off"]

NoScalar == [pc |-> "off"]

NoFreq == [pc |-> "off"]

NoClock == [pc |-> "off"]

NoArgs == [dest |-> 0, src |-> 0, size |-> 0, c |-> 0]

NoCheck == [c |-> 0, n |-> 0, step |-> 0]

---------------------------------------------------------------------------
(* Library primitives *)

\* (unsigned char)c
ToUChar(c) == c % 256

\* the char a byte reads as (char is signed on x86)
ToChar(b) == IF b >= 128 THEN b - 256 ELSE b

\* a copy that runs forward one byte at a time and reads what it has written
StdMemmoveForward(m, d, s, n) ==
  [a \in DOMAIN m \cup (d .. (d + n - 1)) |->
     IF a >= d /\ a < d + n
       THEN IF d > s /\ d < s + n
              THEN Load(m, s + ((a - d) % (d - s)))
              ELSE Load(m, s + (a - d))
       ELSE m[a]]

\* std::memmove(dest, src, size): as if through a temporary copy
StdMemmove(m, d, s, n) ==
  [a \in DOMAIN m \cup (d .. (d + n - 1)) |->
     IF a >= d /\ a < d + n THEN Load(m, s + (a - d)) ELSE m[a]]

\* a fill that stops one byte short
StdMemsetShort(m, b, c, n) ==
  [a \in DOMAIN m \cup (b .. (b + n - 2)) |->
     IF a >= b /\ a < b + n - 1 THEN ToUChar(c) ELSE m[a]]

\* std::memset(base, c, size)
StdMemset(m, b, c, n) ==
  [a \in DOMAIN m \cup (b .. (b + n - 1)) |->
     IF a >= b /\ a < b + n THEN ToUChar(c) ELSE m[a]]

---------------------------------------------------------------------------
(* Method bodies: the statements each method runs, in order *)

ClwbPersist(b, n) == << Stmt("flush", b, 0, n), Stmt("drain", 0, 0, 0) >>

\* a delegation that hands memmove its arguments in the wrong order
ClwbMemcpySwapped(d, s, n) == << Stmt("DBGH", 4, 0, 0), Stmt("memmove", s, d, n) >>

ClwbMemcpy(d, s, n) == << Stmt("DBGH", 4, 0, 0), Stmt("memmove", d, s, n) >>

\* a move that flushes before it copies
ClwbMemmoveFlushFirst(d, s, n) ==
  << Stmt("flush", d, 0, n), Stmt("std::memmove", d, s, n), Stmt("drain", 0, 0, 0) >>

ClwbMemmove(d, s, n) ==
  << Stmt("std::memmove", d, s, n), Stmt("flush", d, 0, n), Stmt("drain", 0, 0, 0) >>

ClwbMemset(b, c, n) ==
  << Stmt("DBGH", 4, 0, 0), Stmt("std::memset", b, c, n), Stmt("flush", b, 0, n),
     Stmt("drain", 0, 0, 0) >>

ClflushOptPersist(b, n) ==
  << Stmt("DBGH", 4, 0, 0), Stmt("flush", b, 0, n), Stmt("drain", 0, 0, 0) >>

ClflushOptMemcpy(d, s, n) == << Stmt("DBGH", 4, 0, 0), Stmt("memmove", d, s, n) >>

ClflushOptMemmove(d, s, n) ==
  << Stmt("std::memmove", d, s, n), Stmt("flush", d, 0, n), Stmt("drain", 0, 0, 0) >>

\* a fill that flushes before it writes
ClflushOptMemsetFlushFirst(b, c, n) ==
  << Stmt("DBGH", 4, 0, 0), Stmt("flush", b, 0, n), Stmt("std::memset", b, c, n),
     Stmt("drain", 0, 0, 0) >>

ClflushOptMemset(b, c, n) ==
  << Stmt("DBGH", 4, 0, 0), Stmt("std::memset", b, c, n), Stmt("flush", b, 0, n),
     Stmt("drain", 0, 0, 0) >>

MsyncPersist(b, n) == << Stmt("flush", b, 0, n) >>

MsyncMemcpy(d, s, n) == << Stmt("DBGH", 4, 0, 0), Stmt("memmove", d, s, n) >>

MsyncMemmove(d, s, n) ==
  << Stmt("std::memmove", d, s, n), Stmt("flush", d, 0, n), Stmt("drain", 0, 0, 0) >>

MsyncMemset(b, c, n) ==
  << Stmt("DBGH", 4, 0, 0), Stmt("std::memset", b, c, n), Stmt("flush", b, 0, n),
     Stmt("drain", 0, 0, 0) >>

NoPersistPersist(b, n) == << >>

NoPersistMemcpy(d, s, n) == << Stmt("DBGH", 4, 0, 0), Stmt("memmove", d, s, n) >>

NoPersistMemmove(d, s, n) == << Stmt("std::memmove", d, s, n) >>

\* a memset that does nothing at all
NoPersistMemsetSkipped(b, c, n) == << >>

NoPersistMemset(b, c, n) == << Stmt("DBGH", 4, 0, 0), Stmt("std::memset", b, c, n) >>

\* virtual dispatch on the object's dynamic type
Body(s, call) ==
  LET a == call.addr
      x == call.aux
      n == call.size
  IN CASE call.st = "persist" ->
            (CASE s = "Clwb"       -> ClwbPersist(a, n)
               [] s = "ClflushOpt" -> ClflushOptPersist(a, n)
               [] s = "Msync"      -> MsyncPersist(a, n)
               [] s = "NoPersist"  -> NoPersistPersist(a, n))
       [] call.st = "memcpy" ->
            (CASE s = "Clwb"       -> ClwbMemcpy(a, x, n)
               [] s = "ClflushOpt" -> ClflushOptMemcpy(a, x, n)
               [] s = "Msync"      -> MsyncMemcpy(a, x, n)
               [] s = "NoPersist"  -> NoPersistMemcpy(a, x, n))
       [] call.st = "memmove" ->
            (CASE s = "Clwb"       -> ClwbMemmove(a, x, n)
               [] s = "ClflushOpt" -> ClflushOptMemmove(a, x, n)
               [] s = "Msync"      -> MsyncMemmove(a, x, n)
               [] s = "NoPersist"  -> NoPersistMemmove(a, x, n))
       [] call.st = "memset" ->
            (CASE s = "Clwb"       -> ClwbMemset(a, x, n)
               [] s = "ClflushOpt" -> ClflushOptMemset(a, x, n)
               [] s = "Msync"      -> MsyncMemset(a, x, n)
               [] s = "NoPersist"  -> NoPersistMemset(a, x, n))

Methods == {"persist", "memcpy", "memmove", "memset"}

---------------------------------------------------------------------------
(* The state after construction: an object of some strategy in some build, *)
(* the memory mapped, no call made yet.                                    *)

Init ==
  /\ strategy \in Strategies
  /\ defined \in Builds(strategy)
  /\ mem = << >>
  /\ prog \in {"call", "do_check"}
  /\ check = NoCheck
  /\ op = "none"
  /\ args = NoArgs
  /\ todo = << >>
  /\ pc = "idle"
  /\ uptr = 0
  /\ remaining_bytes = 0
  /\ cur_off_bytes = 0
  /\ trace = << >>
  /\ err = ""
  /\ env \in Envs(strategy)
  /\ threads = NoThreads
  /\ tok = NoTok
  /\ scalar = NoScalar
  /\ freq = NoFreq
  /\ clock = NoClock

\* the caller's contract: the range is mapped
Mapped(a, n) == a >= MemBase /\ a + n <= MemBase + MemSize

\* The program calls method o of the object.
Invoke(o, d, s, n, c) ==
  /\ op' = o
  /\ args' = [dest |-> d, src |-> s, size |-> n, c |-> c]
  /\ todo' = << Stmt(o, d, IF o = "memset" THEN c ELSE s, n) >>
  /\ trace' = << >>
  /\ pc' = "run"
  /\ UNCHANGED <<outside, strategy, defined, mem, prog, uptr, remaining_bytes, cur_off_bytes, err>>

Call(o, d, s, n, c) ==
  /\ pc = "idle"
  /\ prog = "call"
  /\ Mapped(d, n)
  /\ Mapped(s, n)
  /\ Invoke(o, d, s, n, c)
  /\ UNCHANGED check

\* A call of a method runs the method's body.
Enter ==
  /\ pc = "run"
  /\ todo # << >>
  /\ Head(todo).st \in Methods
  /\ todo' = Body(strategy, Head(todo)) \o Tail(todo)
  /\ UNCHANGED <<outside, strategy, defined, mem, prog, check, op, args, pc, uptr,
                 remaining_bytes, cur_off_bytes, trace, err>>

\* nvsl::is_log_enabled(level): "on", "off", or "exit" when it ends the
\* process.  The number read is stored in a uint8_t before it is compared.
IsLogEnabled(level) ==
  LET val == env.NVSL_LOG_LEVEL
      log_lvl == IF val = Unset THEN 0 ELSE val % 256
  IN IF val = Unparsable THEN "exit"
     ELSE IF val # Unset /\ log_lvl > 4 THEN "exit"
     ELSE IF level <= log_lvl THEN "on" ELSE "off"

\* the constructor of DBGH(level): in a RELEASE build it asks nothing
DbghOutcome(level) == IF "RELEASE" \in defined THEN "off" ELSE IsLogEnabled(level)

\* DBGH(4) << ... : the line goes to the log when logging is on
Dbgh ==
  /\ pc = "run"
  /\ todo # << >>
  /\ Head(todo).st = "DBGH"
  /\ IF DbghOutcome(Head(todo).addr) = "exit"
       THEN /\ pc' = "exit"
            /\ err' = "LP FATAL"
            /\ UNCHANGED todo
       ELSE /\ todo' = Tail(todo)
            /\ UNCHANGED <<pc, err>>
  /\ UNCHANGED <<outside, strategy, defined, mem, prog, check, op, args, uptr,
                 remaining_bytes, cur_off_bytes, trace>>

LibMemmove ==
  /\ pc = "run"
  /\ todo # << >>
  /\ Head(todo).st = "std::memmove"
  /\ LET f == Head(todo)
     IN /\ mem' = StdMemmove(mem, f.addr, f.aux, f.size)
        /\ trace' = Append(trace, Ev("std::memmove", f.addr, f.aux, f.size))
  /\ todo' = Tail(todo)
  /\ UNCHANGED <<outside, strategy, defined, prog, check, op, args, pc, uptr,
                 remaining_bytes, cur_off_bytes, err>>

LibMemset ==
  /\ pc = "run"
  /\ todo # << >>
  /\ Head(todo).st = "std::memset"
  /\ LET f == Head(todo)
     IN /\ mem' = StdMemset(mem, f.addr, f.aux, f.size)
        /\ trace' = Append(trace, Ev("std::memset", f.addr, f.aux, f.size))
  /\ todo' = Tail(todo)
  /\ UNCHANGED <<outside, strategy, defined, prog, check, op, args, pc, uptr,
                 remaining_bytes, cur_off_bytes, err>>

\* NVSL_ERROR(msg): the message, then exit(1)
Fatal(msg) ==
  /\ pc' = "exit"
  /\ err' = msg

\* a loop that starts at base itself
FlushStartUnaligned(base) == base

\* uptr = (uintptr_t)base & ~(CL_SIZE - 1)
FlushStart(base) == base - (base % CL_SIZE)

\* flush() of the two cache-line strategies: the loop's initialisation
LineFlushEnter(s) ==
  /\ pc = "run"
  /\ todo # << >>
  /\ Head(todo).st = "flush"
  /\ strategy = s
  /\ trace' = Append(trace, Ev("flush", Head(todo).addr, 0, Head(todo).size))
  /\ uptr' = FlushStart(Head(todo).addr)
  /\ pc' = "flush_loop"
  /\ UNCHANGED <<outside, strategy, defined, mem, prog, check, op, args, todo,
                 remaining_bytes, cur_off_bytes, err>>

\* one test of the loop's condition and, when it holds, one run of its body
LineFlushLoop(s, macro, instr, msg) ==
  /\ pc = "flush_loop"
  /\ strategy = s
  /\ IF uptr < Head(todo).addr + Head(todo).size
       THEN IF macro \in defined
              THEN /\ trace' = Append(trace, Ev(instr, uptr, 0, 0))
                   /\ uptr' = uptr + CL_SIZE
                   /\ UNCHANGED <<pc, err, todo>>
              ELSE /\ Fatal(msg)
                   /\ UNCHANGED <<trace, uptr, todo>>
       ELSE /\ pc' = "run"
            /\ todo' = Tail(todo)
            /\ UNCHANGED <<trace, uptr, err>>
  /\ UNCHANGED <<outside, strategy, defined, mem, prog, check, op, args,
                 remaining_bytes, cur_off_bytes>>

ClwbFlush == LineFlushEnter("Clwb")

ClwbFlushLoop == LineFlushLoop("Clwb", "CLWB_AVAIL", "clwb", "doesn't support clwb")

ClflushOptFlush == LineFlushEnter("ClflushOpt")

ClflushOptFlushLoop ==
  LineFlushLoop("ClflushOpt", "CLFLUSHOPT_AVAIL", "clflushopt", "doesn't support clflushopt")

\* What msync(base, size, MS_SYNC) returns: -1 (EINVAL) for a base that is
\* not a multiple of the page size, else the kernel's answer.
MsyncResult(base) == IF base % SMALL_PG_SZ # 0 THEN -1 ELSE env.msync

\* a flush that hands msync the page of base instead of base itself
MsyncFlushByPage ==
  /\ pc = "run"
  /\ todo # << >>
  /\ Head(todo).st = "flush"
  /\ strategy = "Msync"
  /\ LET b == Head(todo).addr - (Head(todo).addr % SMALL_PG_SZ)
     IN trace' = trace \o
          << Ev("flush", Head(todo).addr, 0, Head(todo).size),
             Ev("msync", b, MS_SYNC, Head(todo).size + (Head(todo).addr - b)) >>
  /\ todo' = Tail(todo)
  /\ UNCHANGED <<outside, strategy, defined, mem, prog, check, op, args, pc, uptr,
                 remaining_bytes, cur_off_bytes, err>>

\* msync(base, size, MS_SYNC); its result is not read
MsyncFlush ==
  /\ pc = "run"
  /\ todo # << >>
  /\ Head(todo).st = "flush"
  /\ strategy = "Msync"
  /\ trace' = trace \o << Ev("flush", Head(todo).addr, 0, Head(todo).size),
                          Ev("msync", Head(todo).addr, MS_SYNC, Head(todo).size) >>
  /\ todo' = Tail(todo)
  /\ UNCHANGED <<outside, strategy, defined, mem, prog, check, op, args, pc, uptr,
                 remaining_bytes, cur_off_bytes, err>>

NoPersistFlush ==
  /\ pc = "run"
  /\ todo # << >>
  /\ Head(todo).st = "flush"
  /\ strategy = "NoPersist"
  /\ trace' = Append(trace, Ev("flush", Head(todo).addr, 0, Head(todo).size))
  /\ todo' = Tail(todo)
  /\ UNCHANGED <<outside, strategy, defined, mem, prog, check, op, args, pc, uptr,
                 remaining_bytes, cur_off_bytes, err>>

\* drain() of the two cache-line strategies
FenceDrain(s) ==
  /\ pc = "run"
  /\ todo # << >>
  /\ Head(todo).st = "drain"
  /\ strategy = s
  /\ IF "SFENCE_AVAIL" \in defined
       THEN /\ trace' = trace \o << Ev("drain", 0, 0, 0), Ev("sfence", 0, 0, 0) >>
            /\ todo' = Tail(todo)
            /\ UNCHANGED <<pc, err>>
       ELSE /\ trace' = Append(trace, Ev("drain", 0, 0, 0))
            /\ Fatal("doesn't support sfence")
            /\ UNCHANGED todo
  /\ UNCHANGED <<outside, strategy, defined, mem, prog, check, op, args, uptr,
                 remaining_bytes, cur_off_bytes>>

ClwbDrain == FenceDrain("Clwb")

ClflushOptDrain == FenceDrain("ClflushOpt")

\* a drain() that fences although its strategy has nothing to order
EmptyDrainFenced(s) ==
  /\ pc = "run"
  /\ todo # << >>
  /\ Head(todo).st = "drain"
  /\ strategy = s
  /\ trace' = trace \o << Ev("drain", 0, 0, 0), Ev("sfence", 0, 0, 0) >>
  /\ todo' = Tail(todo)
  /\ UNCHANGED <<outside, strategy, defined, mem, prog, check, op, args, pc, uptr,
                 remaining_bytes, cur_off_bytes, err>>

\* drain() that does nothing
EmptyDrain(s) ==
  /\ pc = "run"
  /\ todo # << >>
  /\ Head(todo).st = "drain"
  /\ strategy = s
  /\ trace' = Append(trace, Ev("drain", 0, 0, 0))
  /\ todo' = Tail(todo)
  /\ UNCHANGED <<outside, strategy, defined, mem, prog, check, op, args, pc, uptr,
                 remaining_bytes, cur_off_bytes, err>>

MsyncDrain == EmptyDrain("Msync")

NoPersistDrain == EmptyDrain("NoPersist")

\* streaming_wr of PMemOpsClflushOpt, PMemOpsMsync and PMemOpsNoPersist:
\* assert(0 && "unimplemented").  A failed assert prints its message and
\* aborts; with NDEBUG the assert is no code at all and the method returns.
Unimplemented ==
  /\ pc = "run"
  /\ todo # << >>
  /\ Head(todo).st = "streaming_wr"
  /\ strategy # "Clwb"
  /\ IF "NDEBUG" \in defined
       THEN /\ todo' = Tail(todo)
            /\ UNCHANGED <<pc, err>>
       ELSE /\ pc' = "exit"
            /\ err' = "unimplemented"
            /\ UNCHANGED todo
  /\ UNCHANGED <<outside, strategy, defined, mem, prog, check, op, args, uptr,
                 remaining_bytes, cur_off_bytes, trace>>

\* The called method returns to the program.
Return ==
  /\ pc = "run"
  /\ todo = << >>
  /\ pc' = "ret"
  /\ UNCHANGED <<outside, strategy, defined, mem, prog, check, op, args, todo, uptr,
                 remaining_bytes, cur_off_bytes, trace, err>>

---------------------------------------------------------------------------
(* PMemOpsClwb::streaming_wr *)

\* streaming_wr_4B .. streaming_wr_256B: the chunk is loaded, then stored
StreamingWrChunk(m, d, s, w) ==
  [a \in DOMAIN m \cup (d .. (d + w - 1)) |->
     IF a >= d /\ a < d + w THEN Load(m, s + (a - d)) ELSE m[a]]

\* a helper that fences after its store
StreamingWrEffectsFenced(tr, d, s, w) ==
  tr \o << Ev("stream", d, s, w), Ev("sfence", 0, 0, 0) >>

\* what a helper does besides the store: nothing (no flush, no fence)
StreamingWrEffects(tr, d, s, w) == Append(tr, Ev("stream", d, s, w))

\* The alignment the store instruction of a helper demands of dest:
\* _mm_stream_si32 and _mm_stream_si64 none, _mm_stream_si128 16 bytes,
\* _mm256_stream_si256 32 bytes, _mm512_stream_si512 64 bytes (the 128B and
\* 256B helpers store 64 bytes at a time).  The loads are unaligned loads.
StoreAlign(w) == IF w >= 64 THEN 64 ELSE IF w >= 16 THEN w ELSE 1

\* an if-chain that tests for 8 bytes before it tests for 16
StreamWidthEightFirst(b, rem) ==
  IF "__AVX512F__" \in b /\ rem >= 256 THEN 256
  ELSE IF "__AVX512F__" \in b /\ rem >= 128 THEN 128
  ELSE IF "__AVX512F__" \in b /\ rem >= 64 THEN 64
  ELSE IF "__AVX__" \in b /\ rem >= 32 THEN 32
  ELSE IF rem >= 8 THEN 8
  ELSE IF rem >= 16 THEN 16
  ELSE IF rem >= 4 THEN 4
  ELSE 0

\* a chain that takes the 64-byte branch in every build
StreamWidthAnyBuild(b, rem) ==
  IF "__AVX512F__" \in b /\ rem >= 256 THEN 256
  ELSE IF "__AVX512F__" \in b /\ rem >= 128 THEN 128
  ELSE IF rem >= 64 THEN 64
  ELSE IF "__AVX__" \in b /\ rem >= 32 THEN 32
  ELSE IF rem >= 16 THEN 16
  ELSE IF rem >= 8 THEN 8
  ELSE IF rem >= 4 THEN 4
  ELSE 0

\* The if-chain of the loop body: the width of the helper it calls, 0 when
\* no branch is taken.
StreamWidth(b, rem) ==
  IF "__AVX512F__" \in b /\ rem >= 256 THEN 256
  ELSE IF "__AVX512F__" \in b /\ rem >= 128 THEN 128
  ELSE IF "__AVX512F__" \in b /\ rem >= 64 THEN 64
  ELSE IF "__AVX__" \in b /\ rem >= 32 THEN 32
  ELSE IF rem >= 16 THEN 16
  ELSE IF rem >= 8 THEN 8
  ELSE IF rem >= 4 THEN 4
  ELSE 0

\* the #ifdef inside the helper of width w: its instructions are compiled
\* in, else its body is assert(0 && "... called on unsupported processor")
HelperCompiled(b, w) ==
  /\ w = 32 => "__AVX__" \in b
  /\ w >= 64 => "__AVX512F__" \in b

\* remaining_bytes = bytes; cur_off_bytes = 0
StreamingWr ==
  /\ pc = "run"
  /\ todo # << >>
  /\ Head(todo).st = "streaming_wr"
  /\ strategy = "Clwb"
  /\ remaining_bytes' = Head(todo).size
  /\ cur_off_bytes' = 0
  /\ pc' = "sw_test"
  /\ UNCHANGED <<outside, strategy, defined, mem, prog, check, op, args, todo, uptr, trace, err>>

\* while (remaining_bytes > 0)
SwTest ==
  /\ pc = "sw_test"
  /\ IF remaining_bytes > 0
       THEN /\ pc' = "sw_body"
            /\ UNCHANGED todo
       ELSE /\ pc' = "run"
            /\ todo' = Tail(todo)
  /\ UNCHANGED <<outside, strategy, defined, mem, prog, check, op, args, uptr,
                 remaining_bytes, cur_off_bytes, trace, err>>

\* The loop body when a branch is taken: one helper call, then the two
\* updates.  A helper whose instructions are not compiled in asserts, and
\* does nothing where NDEBUG removes the assertion.
SwStore ==
  /\ pc = "sw_body"
  /\ StreamWidth(defined, remaining_bytes) > 0
  /\ LET w == StreamWidth(defined, remaining_bytes)
         d == Head(todo).addr + cur_off_bytes
         s == Head(todo).aux + cur_off_bytes
     IN /\ DbghOutcome(4) # "exit"
        /\ IF HelperCompiled(defined, w)
             THEN /\ d % StoreAlign(w) = 0
                  /\ mem' = StreamingWrChunk(mem, d, s, w)
                  /\ trace' = StreamingWrEffects(trace, d, s, w)
                  /\ cur_off_bytes' = cur_off_bytes + w
                  /\ remaining_bytes' = remaining_bytes - w
                  /\ pc' = "sw_test"
                  /\ UNCHANGED err
             ELSE /\ trace' = Append(trace, Ev("unsupported", d, s, w))
                  /\ IF "NDEBUG" \in defined
                       THEN /\ cur_off_bytes' = cur_off_bytes + w
                            /\ remaining_bytes' = remaining_bytes - w
                            /\ pc' = "sw_test"
                            /\ UNCHANGED err
                       ELSE /\ Fatal("called on unsupported processor")
                            /\ UNCHANGED <<cur_off_bytes, remaining_bytes>>
                  /\ UNCHANGED mem
  /\ UNCHANGED <<outside, strategy, defined, prog, check, op, args, todo, uptr>>

\* The loop body when the helper's DBGH(4) line ends the process.
SwLog ==
  /\ pc = "sw_body"
  /\ StreamWidth(defined, remaining_bytes) > 0
  /\ DbghOutcome(4) = "exit"
  /\ pc' = "exit"
  /\ err' = "LP FATAL"
  /\ UNCHANGED <<outside, strategy, defined, mem, prog, check, op, args, todo, uptr,
                 remaining_bytes, cur_off_bytes, trace>>

\* The loop body when the helper's first store is to a misaligned address:
\* the instruction raises a general-protection fault before a byte is
\* written, and the signal ends the process.
SwFault ==
  /\ pc = "sw_body"
  /\ StreamWidth(defined, remaining_bytes) > 0
  /\ DbghOutcome(4) # "exit"
  /\ HelperCompiled(defined, StreamWidth(defined, remaining_bytes))
  /\ (Head(todo).addr + cur_off_bytes) % StoreAlign(StreamWidth(defined, remaining_bytes)) # 0
  /\ pc' = "exit"
  /\ err' = "SIGSEGV"
  /\ UNCHANGED <<outside, strategy, defined, mem, prog, check, op, args, todo, uptr,
                 remaining_bytes, cur_off_bytes, trace>>

\* The loop body when 1..3 bytes remain: no branch is taken and nothing
\* changes, so the loop iterates for ever without a side effect.  That is
\* undefined behaviour, and a compiler may also assume the loop ends: the
\* build either spins or leaves the loop with the residual bytes unwritten.
SwStall ==
  /\ pc = "sw_body"
  /\ StreamWidth(defined, remaining_bytes) = 0
  /\ \/ /\ pc' = "sw_test"
        /\ UNCHANGED todo
     \/ /\ pc' = "run"
        /\ todo' = Tail(todo)
  /\ UNCHANGED <<outside, strategy, defined, mem, prog, check, op, args, uptr,
                 remaining_bytes, cur_off_bytes, trace, err>>

---------------------------------------------------------------------------
(* tests/test_pmemops.cc: do_check, for a fill char c and a size n in place *)
(* of 'c' and 1024.  src and dst are two arrays of BufLen bytes.            *)

BufLen == MemSize \div 2

CheckSrc == MemBase

CheckDst == MemBase + BufLen

\* pmemops->memset(src, c, n)
DoCheckMemset(c, n) ==
  /\ pc = "idle"
  /\ prog = "do_check"
  /\ n <= BufLen
  /\ check' = [c |-> c, n |-> n, step |-> 1]
  /\ Invoke("memset", CheckSrc, 0, n, c)

\* pmemops->memcpy(dst, src, n)
DoCheckMemcpy ==
  /\ pc = "ret"
  /\ prog = "do_check"
  /\ check.step = 1
  /\ check' = [check EXCEPT !.step = 2]
  /\ Invoke("memcpy", CheckDst, CheckSrc, check.n, 0)

---------------------------------------------------------------------------
(* The arguments the program calls the methods with (offsets in the        *)
(* mapping): every alignment class of a cache line, empty ranges, ranges   *)
(* of whole lines and of whole lines plus a part, overlapping and disjoint *)
(* source and destination.                                                 *)

Bases == {0, 1, 63, 64}

Sizes == {0, 1, 63} \cup {k * CL_SIZE + r : k \in 1 .. MaxLines, r \in {0, 1}}

Chars == {99, -1}

\* <<dest, src>>: disjoint, dest above src, dest below src
Pairs == {<<BufLen, 0>>, <<4, 0>>, <<0, 4>>, <<65, 3>>}

\* <<dest, src>> of streaming_wr: dest aligned to 64, to 16 only, to 4 only
StreamPairs == {<<256, 0>>, <<64, 0>>, <<0, 4>>, <<16, 4>>, <<4, 0>>}

MoveSizes == {0, 1, 8, 65, 130}

StreamSizes == {0, 1, 2, 3, 4, 7, 8, 12, 16, 28, 32, 34, 60, 64, 97, 100, 128, 192, 256, 512}

Next ==
  \/ \E o \in {"flush", "persist"}, b \in Bases, n \in Sizes :
       Call(o, MemBase + b, MemBase, n, 0)
  \/ Call("drain", MemBase, MemBase, 0, 0)
  \/ \E b \in Bases, n \in Sizes, c \in Chars :
       Call("memset", MemBase + b, MemBase, n, c)
  \/ \E o \in {"memcpy", "memmove"}, p \in Pairs, n \in MoveSizes :
       Call(o, MemBase + p[1], MemBase + p[2], n, 0)
  \/ \E p \in StreamPairs, n \in StreamSizes :
       Call("streaming_wr", MemBase + p[1], MemBase + p[2], n, 0)
  \/ \E c \in Chars, n \in Sizes \cup {BufLen} : DoCheckMemset(c, n)
  \/ DoCheckMemcpy
  \/ Enter
  \/ Dbgh
  \/ LibMemmove
  \/ LibMemset
  \/ ClwbFlush
  \/ ClwbFlushLoop
  \/ ClflushOptFlush
  \/ ClflushOptFlushLoop
  \/ MsyncFlush
  \/ NoPersistFlush
  \/ ClwbDrain
  \/ ClflushOptDrain
  \/ MsyncDrain
  \/ NoPersistDrain
  \/ Unimplemented
  \/ StreamingWr
  \/ SwTest
  \/ SwStore
  \/ SwLog
  \/ SwFault
  \/ SwStall
  \/ Return

Spec == Init /\ [][Next]_vars

\* A thread that can take a step takes one: the call runs on.
FairSpec == Spec /\ WF_vars(Next)

---------------------------------------------------------------------------
(* Several threads share one strategy object.  Each thread makes one call  *)
(* on a range of its own.  The variables op, args, todo, pc, uptr and      *)
(* trace are those of the thread that is running; `threads' holds which    *)
(* thread that is and the same locals of the threads that are not running. *)
(* The object has no data member, so a thread's locals are all there is to *)
(* switch.                                                                 *)

Threads == {1, 2}

\* bytes of the range each thread owns; two ranges share a cache line
RegionLen == 100

RegionBase(t) == MemBase + (t - 1) * RegionLen

\* the locals of a thread that has not called yet
IdleCtx ==
  [op |-> "none", args |-> NoArgs, todo |-> << >>, pc |-> "idle", uptr |-> 0,
   trace |-> << >>]

\* the locals of the running thread
CurCtx ==
  [op |-> op, args |-> args, todo |-> todo, pc |-> pc, uptr |-> uptr,
   trace |-> trace]

\* the locals of thread t
View(t) == IF t = threads.cur THEN CurCtx ELSE threads.saved[t]

\* the builds that differ in a macro tested by the methods the threads call
ThreadBuilds(s) == {b \in Builds(s) : b \cap {"__AVX512F__", "__AVX__", "NDEBUG"} = {}}

ConcInit ==
  /\ strategy \in Strategies
  /\ defined \in ThreadBuilds(strategy)
  /\ mem = << >>
  /\ prog = "threads"
  /\ check = NoCheck
  /\ op = "none"
  /\ args = NoArgs
  /\ todo = << >>
  /\ pc = "idle"
  /\ uptr = 0
  /\ remaining_bytes = 0
  /\ cur_off_bytes = 0
  /\ trace = << >>
  /\ err = ""
  /\ env \in Envs(strategy)
  /\ threads = [cur |-> 1, saved |-> [t \in Threads |-> IdleCtx]]
  /\ tok = NoTok
  /\ scalar = NoScalar
  /\ freq = NoFreq
  /\ clock = NoClock

\* The running thread calls a method on its own range; its fill char is its id.
ThreadCall(k) ==
  /\ pc = "idle"
  /\ prog = "threads"
  /\ Invoke(k[1], RegionBase(threads.cur) + k[2], RegionBase(threads.cur) + k[3],
            k[4], threads.cur)
  /\ UNCHANGED check

\* a switch that leaves the loop variable of flush where it is, as if it were
\* a member of the shared object
SwitchSharingUptr(u) ==
  /\ prog = "threads"
  /\ pc # "exit"
  /\ u # threads.cur
  /\ threads' = [cur |-> u,
                 saved |-> [threads.saved EXCEPT ![threads.cur] = CurCtx, ![u] = IdleCtx]]
  /\ op' = threads.saved[u].op
  /\ args' = threads.saved[u].args
  /\ todo' = threads.saved[u].todo
  /\ pc' = threads.saved[u].pc
  /\ trace' = threads.saved[u].trace
  /\ UNCHANGED <<strategy, defined, mem, prog, check, uptr, remaining_bytes,
                 cur_off_bytes, err, env, tok, scalar, freq, clock>>

\* The scheduler takes the processor from the running thread, between any
\* two of its steps, and gives it to thread u.
Switch(u) ==
  /\ prog = "threads"
  /\ pc # "exit"
  /\ u # threads.cur
  /\ threads' = [cur |-> u,
                 saved |-> [threads.saved EXCEPT ![threads.cur] = CurCtx, ![u] = IdleCtx]]
  /\ op' = threads.saved[u].op
  /\ args' = threads.saved[u].args
  /\ todo' = threads.saved[u].todo
  /\ pc' = threads.saved[u].pc
  /\ uptr' = threads.saved[u].uptr
  /\ trace' = threads.saved[u].trace
  /\ UNCHANGED <<strategy, defined, mem, prog, check, remaining_bytes,
                 cur_off_bytes, err, env, tok, scalar, freq, clock>>

ConcNext ==
  \/ \E k \in {<<"memset", 0, 0, RegionLen>>, <<"memcpy", 36, 0, CL_SIZE>>,
              <<"memmove", 4, 0, RegionLen - 4>>, <<"persist", 0, 0, RegionLen>>} :
       ThreadCall(k)
  \/ \E u \in Threads : Switch(u)
  \/ Enter
  \/ Dbgh
  \/ LibMemmove
  \/ LibMemset
  \/ ClwbFlush
  \/ ClwbFlushLoop
  \/ ClflushOptFlush
  \/ ClflushOptFlushLoop
  \/ MsyncFlush
  \/ ClwbDrain
  \/ ClflushOptDrain
  \/ MsyncDrain
  \/ Return

ConcSpec == ConcInit /\ [][ConcNext]_vars

---------------------------------------------------------------------------
(* The other components are objects and functions of their own: while one  *)
(* of them is exercised, no PMemOps call is made.                          *)

pmem == <<strategy, defined, mem, prog, check, op, args, todo, pc, uptr,
          remaining_bytes, cur_off_bytes, trace, err>>

PmemOff ==
  /\ strategy = "NoPersist"
  /\ defined = {}
  /\ mem = << >>
  /\ prog = "none"
  /\ check = NoCheck
  /\ op = "none"
  /\ args = NoArgs
  /\ todo = << >>
  /\ pc = "idle"
  /\ uptr = 0
  /\ remaining_bytes = 0
  /\ cur_off_bytes = 0
  /\ trace = << >>
  /\ err = ""
  /\ env = [msync |-> 0, NVSL_LOG_LEVEL |-> Unset]
  /\ threads = NoThreads

---------------------------------------------------------------------------
(* include/nvsl/string.hh: nvsl::split(str, delim), assert_length left at  *)
(* its default.  A string is the sequence of its characters; positions     *)
(* count from 0 as in the code.                                            *)

\* longest generated string
MaxStrLen == 4

\* std::string::npos, the position no string has
Npos == -1

Chars2 == {"a", "b"}

SeqsUpTo(S, n) == UNION {[1 .. k -> S] : k \in 0 .. n}

\* the string of tests/test_string.cc
HelloWorld == <<"H", "e", "l", "l", "o", "!", " ", "W", "o", "r", "l", "d", ".">>

\* str.find(delim, from): the first position >= from where delim stands
Find(str, delim, from) ==
  LET hits == {q \in from .. (Len(str) - Len(delim)) :
                 SubSeq(str, q + 1, q + Len(delim)) = delim}
  IN IF hits = {} THEN Npos ELSE CHOOSE q \in hits : \A r \in hits : q <= r

\* str.substr(from, count), for from <= str.length()
Substr(str, from, count) ==
  SubSeq(str, from + 1, IF from + count > Len(str) THEN Len(str) ELSE from + count)

\* a push that keeps empty tokens
PushAnyToken(result, token) == Append(result, token)

\* if (!token.empty()) result.push_back(token)
PushToken(result, token) == IF token # << >> THEN Append(result, token) ELSE result

SplitInit ==
  /\ PmemOff
  /\ scalar = NoScalar
  /\ freq = NoFreq
  /\ clock = NoClock
  /\ tok \in [pc : {"body"}, str : SeqsUpTo(Chars2, MaxStrLen) \cup {HelloWorld},
              delim : SeqsUpTo(Chars2, 2) \cup {<<" ">>}, result : {<< >>},
              prev : {0}, pos : {0}]

\* one run of the body of the do-while loop
SplitBody ==
  /\ tok.pc = "body"
  /\ LET found == Find(tok.str, tok.delim, tok.prev)
         at == IF found = Npos THEN Len(tok.str) ELSE found
         token == Substr(tok.str, tok.prev, at - tok.prev)
     IN tok' = [tok EXCEPT !.pos = at,
                           !.result = PushToken(tok.result, token),
                           !.prev = at + Len(tok.delim),
                           !.pc = "test"]
  /\ UNCHANGED <<pmem, env, threads, scalar, freq, clock>>

\* while (pos < str.length() && prev < str.length()); then return result.
\* With an empty delim a run of the body changes nothing that the test
\* reads, so the loop iterates for ever without a side effect: undefined
\* behaviour, and a compiler may also assume that the loop ends.  The build
\* either spins or leaves the loop.
SplitTest ==
  /\ tok.pc = "test"
  /\ IF tok.pos < Len(tok.str) /\ tok.prev < Len(tok.str)
       THEN \/ tok' = [tok EXCEPT !.pc = "body"]
            \/ /\ tok.delim = << >>
               /\ tok' = [tok EXCEPT !.pc = "ret"]
       ELSE tok' = [tok EXCEPT !.pc = "ret"]
  /\ UNCHANGED <<pmem, env, threads, scalar, freq, clock>>

SplitNext == SplitBody \/ SplitTest

SplitSpec == SplitInit /\ [][SplitNext]_vars

\* the thread that called split keeps running while it can take a step
SplitFairSpec == SplitSpec /\ WF_vars(SplitNext)

---------------------------------------------------------------------------
(* include/nvsl/stats.hh: one StatsScalar object.  The samples are whole   *)
(* numbers that a double holds exactly, so total is their exact sum; the   *)
(* quotient that avg() returns is kept as a fraction in lowest terms.      *)

\* most samples added to the object after its construction
MaxSamples == 4

\* stands for DBL_MAX: above every sample and every total
DBL_MAX == 1000000

Magnitude(n) == IF n < 0 THEN -n ELSE n

RECURSIVE Gcd(_, _)
Gcd(a, b) == IF b = 0 THEN a ELSE Gcd(b, a % b)

\* n / (double)d for d > 0
Divide(n, d) ==
  LET g == Gcd(Magnitude(n), d)
  IN [num |-> n \div g, den |-> d \div g]

\* StatsScalar testStat: total(0), count(0), max_v = -DBL_MAX, min_v = DBL_MAX,
\* sample_count = 0.  periodic_stat_dump is fixed by the build.  added lists
\* the samples added since construction or the last reset, ops counts every
\* sample added since construction, dumped tells whether the last += has
\* written the dump file: the three are not fields of the object.
ScalarInit ==
  /\ PmemOff
  /\ tok = NoTok
  /\ freq = NoFreq
  /\ clock = NoClock
  /\ scalar \in [pc : {"live"}, total : {0}, count : {0}, max_v : {-DBL_MAX},
                 min_v : {DBL_MAX}, sample_count : {0},
                 periodic_stat_dump : BOOLEAN, STAT_DUMP_PERIOD : {1, 16 * 1024},
                 added : {<< >>}, ops : {0}, dumped : {FALSE}]

\* a reset that forgets to clear total
ScalarResetKeepsTotal ==
  /\ scalar.pc = "live"
  /\ scalar' = [scalar EXCEPT !.count = 0, !.max_v = -DBL_MAX, !.min_v = DBL_MAX,
                              !.added = << >>, !.dumped = FALSE]
  /\ UNCHANGED <<pmem, env, threads, tok, freq, clock>>

\* testStat += rhs, notify_sample() included
ScalarAdd(rhs) ==
  /\ scalar.pc = "live"
  /\ scalar.ops < MaxSamples
  /\ scalar' = [scalar EXCEPT
                  !.max_v = IF rhs < scalar.max_v THEN scalar.max_v ELSE rhs,
                  !.min_v = IF scalar.min_v < rhs THEN scalar.min_v ELSE rhs,
                  !.total = scalar.total + rhs,
                  !.count = scalar.count + 1,
                  !.sample_count = IF scalar.periodic_stat_dump
                                     THEN scalar.sample_count + 1
                                     ELSE scalar.sample_count,
                  !.dumped = /\ scalar.periodic_stat_dump
                             /\ scalar.sample_count > scalar.STAT_DUMP_PERIOD,
                  !.added = Append(scalar.added, rhs),
                  !.ops = scalar.ops + 1]
  /\ UNCHANGED <<pmem, env, threads, tok, freq, clock>>

\* testStat.reset()
ScalarReset ==
  /\ scalar.pc = "live"
  /\ scalar' = [scalar EXCEPT !.count = 0, !.total = 0, !.max_v = -DBL_MAX,
                              !.min_v = DBL_MAX, !.added = << >>, !.dumped = FALSE]
  /\ UNCHANGED <<pmem, env, threads, tok, freq, clock>>

\* testStat.avg()
Avg ==
  IF scalar.count = 0 THEN [num |-> 0, den |-> 1]
  ELSE Divide(scalar.total, scalar.count)

\* testStat.counts()
Counts == scalar.count

ScalarNext ==
  \/ \E rhs \in {-50, 0, 7, 100} : ScalarAdd(rhs)
  \/ ScalarReset

ScalarSpec == ScalarInit /\ [][ScalarNext]_vars

---------------------------------------------------------------------------
(* include/nvsl/stats.hh: one StatsFreq<size_t> object.  init is called    *)
(* with arguments that satisfy its two assertions.                         *)

\* most calls of add on the object
MaxAdds == 2

\* largest bucket_cnt passed to init
MaxBuckets == 3

\* StatsFreq<> stat: constructed, init not called yet.  periodic_stat_dump
\* is fixed by the build.  adds counts the calls of add and last describes
\* the latest one: they are not fields of the object.
FreqNew ==
  /\ PmemOff
  /\ tok = NoTok
  /\ scalar = NoScalar
  /\ clock = NoClock
  /\ freq \in [pc : {"new"}, periodic_stat_dump : BOOLEAN, sample_count : {0},
               err : {""}, adds : {0}]

\* stat.init(name, desc, bucket_cnt, bucket_min, bucket_max)
FreqInit(bucket_cnt, bucket_min, bucket_max) ==
  /\ freq.pc = "new"
  /\ bucket_cnt # 0
  /\ bucket_max > bucket_min
  /\ freq' = [pc |-> "live",
              periodic_stat_dump |-> freq.periodic_stat_dump,
              sample_count |-> freq.sample_count,
              err |-> "",
              adds |-> 0,
              bucket_cnt |-> bucket_cnt,
              bucket_min |-> bucket_min,
              bucket_max |-> bucket_max,
              bucket_sz |-> (bucket_max - bucket_min) \div bucket_cnt,
              underflow_cnt |-> 0,
              overflow_cnt |-> 0,
              sum |-> 0,
              counts |-> [i \in 0 .. (bucket_cnt - 1) |-> 0],
              strays |-> 0,
              last |-> [val |-> 0, count |-> 0, slot |-> "none", idx |-> 0,
                        total |-> 0, held |-> 0]]
  /\ UNCHANGED <<pmem, env, threads, tok, scalar, clock>>

RECURSIVE Accumulate(_, _)
\* std::accumulate(counts, counts + n, 0)
Accumulate(counts, n) == IF n = 0 THEN 0 ELSE counts[n - 1] + Accumulate(counts, n - 1)

\* stat.total()
Total(f) == f.underflow_cnt + f.overflow_cnt + Accumulate(f.counts, f.bucket_cnt)

\* the counter that add(val) picks: underflow, overflow, or a bucket
Slot(f, val) ==
  IF val < f.bucket_min THEN "underflow"
  ELSE IF val >= f.bucket_max THEN "overflow"
  ELSE "bucket"

\* the number held by the counter that add(val) picks, idx being the bucket
Held(f, slot, idx) ==
  CASE slot = "underflow" -> f.underflow_cnt
    [] slot = "overflow" -> f.overflow_cnt
    [] slot = "bucket" /\ idx \in DOMAIN f.counts -> f.counts[idx]
    [] OTHER -> 0

\* the fields that every add that returns leaves behind: sum += val,
\* notify_sample(); last is taken from the object as it was before the call
Sampled(f, val, count, slot, idx) ==
  [f EXCEPT !.sum = f.sum + val,
            !.sample_count = IF f.periodic_stat_dump THEN f.sample_count + 1
                             ELSE f.sample_count,
            !.adds = f.adds + 1,
            !.last = [val |-> val, count |-> count, slot |-> slot, idx |-> idx,
                      total |-> Total(freq), held |-> Held(freq, slot, idx)]]

\* the process is killed inside add
Killed(f, val, count, idx, signal) ==
  [f EXCEPT !.pc = "exit", !.err = signal, !.adds = f.adds + 1,
            !.last = [val |-> val, count |-> count, slot |-> "bucket", idx |-> idx,
                      total |-> Total(f), held |-> Held(f, "bucket", idx)]]

\* counts[bucket_idx]++
Bump(f, val, count, idx, stray) ==
  IF idx \in DOMAIN f.counts
    THEN Sampled([f EXCEPT !.counts[idx] = f.counts[idx] + 1], val, count, "bucket", idx)
  ELSE IF stray = "fault"
    THEN Killed(f, val, count, idx, "SIGSEGV")
  ELSE Sampled([f EXCEPT !.strays = f.strays + 1], val, count, "bucket", idx)

\* stat.add(val, count).  An integer division by zero traps, or the
\* instruction yields 0; a store past the end of the counts array lands in
\* memory that is not the array's, or the process is killed.
FreqAdd(val, count) ==
  /\ freq.pc = "live"
  /\ freq.adds < MaxAdds
  /\ \E div \in {"trap", "zero"}, stray \in {"stray", "fault"} :
       freq' =
         CASE Slot(freq, val) = "underflow" ->
                Sampled([freq EXCEPT !.underflow_cnt = freq.underflow_cnt + 1],
                        val, count, "underflow", 0)
           [] Slot(freq, val) = "overflow" ->
                Sampled([freq EXCEPT !.overflow_cnt = freq.overflow_cnt + 1],
                        val, count, "overflow", 0)
           [] OTHER ->
                IF freq.bucket_sz = 0
                  THEN IF div = "trap"
                         THEN Killed(freq, val, count, 0, "SIGFPE")
                         ELSE Bump(freq, val, count, 0, stray)
                  ELSE Bump(freq, val, count,
                            (val - freq.bucket_min) \div freq.bucket_sz, stray)
  /\ UNCHANGED <<pmem, env, threads, tok, scalar, clock>>

FreqNext ==
  \/ \E bucket_cnt \in 1 .. MaxBuckets, bucket_min \in {0, 2}, bucket_max \in {4, 6, 10} :
       FreqInit(bucket_cnt, bucket_min, bucket_max)
  \/ \E val \in {0, 1, 3, 5, 9, 10, 11}, count \in {1, 2} : FreqAdd(val, count)

FreqSpec == FreqNew /\ [][FreqNext]_vars

---------------------------------------------------------------------------
(* include/nvsl/clock.hh: one Clock object.  A vector of values is kept as *)
(* the sequence of its runs, a run [n, v] being n neighbouring elements    *)
(* equal to v, so that a vector of RAW_VAL_CNT values has a short          *)
(* description.  Times are counted in nanoseconds.                         *)

RAW_VAL_CNT == 1024 * 1024 * 100

\* size_t is given 30 bits (TLC's integers have 32): more than
\* every size, sum and time of the model
SizeModulus == 2 ^ 30

\* most calls made on the object
MaxCalls == 5

OVERFLOW_MSG == "Raw values buffer overflow, increase array size or operations/loop"

RECURSIVE Size(_)
\* v.size()
Size(v) == IF v = << >> THEN 0 ELSE Head(v).n + Size(Tail(v))

RECURSIVE SumOfRuns(_)
\* the sum of the elements of v
SumOfRuns(v) == IF v = << >> THEN 0 ELSE Head(v).n * Head(v).v + SumOfRuns(Tail(v))

\* v.push_back(x)
PushBack(v, x) ==
  IF v # << >> /\ v[Len(v)].v = x
    THEN [v EXCEPT ![Len(v)].n = v[Len(v)].n + 1]
    ELSE Append(v, [n |-> 1, v |-> x])

RECURSIVE Occurrences(_, _)
\* how many elements of v equal x
Occurrences(v, x) ==
  IF v = << >> THEN 0
  ELSE (IF Head(v).v = x THEN Head(v).n ELSE 0) + Occurrences(Tail(v), x)

RECURSIVE Ascending(_, _)
\* the elements of v whose value is in the set xs, in ascending order
Ascending(v, xs) ==
  IF xs = {} THEN << >>
  ELSE LET x == CHOOSE y \in xs : \A z \in xs : y <= z
       IN << [n |-> Occurrences(v, x), v |-> x] >> \o Ascending(v, xs \ {x})

\* the call the object has seen last, and what the object was before it
CallSeen(c, name, pct, idx) ==
  [call |-> name, running |-> c.running, size |-> Size(c.raw_values),
   sorted |-> Size(c.sorted_raw_values), events |-> c.events, pc |-> pct, idx |-> idx]

\* Clock clk: running = false, total_ns = 0, events = 0, no values.  calls
\* counts the calls made on the object, tocks the calls of tock that have
\* returned since construction or the last reset, last is the latest call:
\* the three, and now, are not fields of the object.  defined holds the
\* macros clock.hh tests; error.hh defines NVSL_ERROR and NVSL_ASSERT together.
ClockNew ==
  /\ PmemOff
  /\ tok = NoTok
  /\ scalar = NoScalar
  /\ freq = NoFreq
  /\ clock \in [pc : {"live"},
                defined : {b \in SUBSET {"NVSL_ERROR", "NVSL_ASSERT", "DBGE", "NDEBUG"} :
                             ("NVSL_ERROR" \in b) <=> ("NVSL_ASSERT" \in b)},
                now : {0}, start_clk : {0},
                running : {FALSE}, total_ns : {0}, raw_values : {<< >>},
                sorted_raw_values : {<< >>}, events : {0}, err : {""},
                calls : {0}, tocks : {0},
                last : {[call |-> "none", running |-> FALSE, size |-> 0, sorted |-> 0,
                         events |-> 0, pc |-> 0, idx |-> 0]}]

\* the test that guards raw_values.push_back
BufferOverflow(c) ==
  IF {"NVSL_ASSERT", "DBGE"} \subseteq c.defined
    THEN ~(Size(c.raw_values) < RAW_VAL_CNT)
    ELSE Size(c.raw_values) > RAW_VAL_CNT

\* a tock that leaves the clock running
TockedStillRunning(c, delay) ==
  LET end_clk == c.now + delay
      elapsed == end_clk - c.start_clk
      at == [c EXCEPT !.now = end_clk, !.calls = c.calls + 1,
                      !.last = CallSeen(c, "tock", 0, 0)]
  IN IF ~c.running
       THEN [at EXCEPT !.pc = "exit", !.err = "Clock not running"]
     ELSE [at EXCEPT !.total_ns = (c.total_ns + elapsed) % SizeModulus,
                     !.raw_values = PushBack(c.raw_values, elapsed),
                     !.events = c.events + 1,
                     !.tocks = c.tocks + 1]

\* clk.tock(), delay nanoseconds after the call before
Tocked(c, delay) ==
  LET end_clk == c.now + delay
      elapsed == end_clk - c.start_clk
      at == [c EXCEPT !.now = end_clk, !.calls = c.calls + 1,
                      !.last = CallSeen(c, "tock", 0, 0)]
      stopped == [at EXCEPT !.running = FALSE,
                            !.total_ns = (c.total_ns + elapsed) % SizeModulus]
  IN IF ~c.running
       THEN [at EXCEPT !.pc = "exit", !.err = "Clock not running"]
     ELSE IF BufferOverflow(c)
       THEN [stopped EXCEPT !.pc = "exit", !.err = OVERFLOW_MSG]
     ELSE [stopped EXCEPT !.raw_values = PushBack(c.raw_values, elapsed),
                          !.events = c.events + 1,
                          !.tocks = c.tocks + 1]

\* a reset that keeps the raw values
WasResetKeepingValues(c) ==
  [c EXCEPT !.running = FALSE, !.total_ns = 0, !.events = 0,
            !.sorted_raw_values = << >>,
            !.calls = c.calls + 1, !.tocks = 0,
            !.last = CallSeen(c, "reset", 0, 0)]

\* clk.reset()
WasReset(c) ==
  [c EXCEPT !.running = FALSE, !.total_ns = 0, !.events = 0,
            !.raw_values = << >>, !.sorted_raw_values = << >>,
            !.calls = c.calls + 1, !.tocks = 0,
            !.last = CallSeen(c, "reset", 0, 0)]

\* std::max(0UL, (size_t)((sz * pc) / 100.0) - 1), where scaled is
\* (size_t)((sz * pc) / 100.0): sz * pc / 100 rounded down, computed
\* without forming the product sz * pc
PercentileIndex(sz, pct) ==
  LET scaled == (sz \div 100) * pct + ((sz % 100) * pct) \div 100
      idx == (scaled - 1) % SizeModulus
  IN IF 0 < idx THEN idx ELSE 0

\* clk.tick(), delay nanoseconds after the call before
ClockTick(delay) ==
  /\ clock.pc = "live"
  /\ clock.calls < MaxCalls
  /\ clock' = [clock EXCEPT !.running = TRUE,
                            !.now = clock.now + delay,
                            !.start_clk = clock.now + delay,
                            !.calls = clock.calls + 1,
                            !.last = CallSeen(clock, "tick", 0, 0)]
  /\ UNCHANGED <<pmem, env, threads, tok, scalar, freq>>

ClockTock(delay) ==
  /\ clock.pc = "live"
  /\ clock.calls < MaxCalls
  /\ clock' = Tocked(clock, delay)
  /\ UNCHANGED <<pmem, env, threads, tok, scalar, freq>>

ClockReset ==
  /\ clock.pc = "live"
  /\ clock.calls < MaxCalls
  /\ clock' = WasReset(clock)
  /\ UNCHANGED <<pmem, env, threads, tok, scalar, freq>>

\* clk.reconcile(): the raw values are appended to the sorted ones, and
\* the whole is sorted (std::sort)
ClockReconcile ==
  /\ clock.pc = "live"
  /\ clock.calls < MaxCalls
  /\ clock' =
       LET all == clock.sorted_raw_values \o clock.raw_values
       IN [clock EXCEPT !.sorted_raw_values =
                          Ascending(all, {all[i].v : i \in 1 .. Len(all)}),
                        !.calls = clock.calls + 1,
                        !.last = CallSeen(clock, "reconcile", 0, 0)]
  /\ UNCHANGED <<pmem, env, threads, tok, scalar, freq>>

\* clk.percentile(pct).  Reading sorted_raw_values[idx] for an idx that is
\* not below its size either kills the process or yields whatever lies there.
ClockPercentile(pct) ==
  /\ clock.pc = "live"
  /\ clock.calls < MaxCalls
  /\ LET sz == Size(clock.sorted_raw_values)
         idx == PercentileIndex(sz, pct)
         at == [clock EXCEPT !.calls = clock.calls + 1,
                             !.last = CallSeen(clock, "percentile", pct, idx)]
     IN IF sz = 0 /\ "NVSL_ERROR" \in clock.defined
          THEN clock' = [at EXCEPT !.pc = "exit",
                                   !.err = "Clock not reconcile. Call reconcile()"]
        ELSE IF sz = 0 /\ "NDEBUG" \notin clock.defined
          THEN clock' = [at EXCEPT !.pc = "exit",
                                   !.err = "Clock not reconciled. Call reconcile()"]
        ELSE IF idx < sz
          THEN clock' = at
        ELSE \/ clock' = at
             \/ clock' = [at EXCEPT !.pc = "exit", !.err = "SIGSEGV"]
  /\ UNCHANGED <<pmem, env, threads, tok, scalar, freq>>

\* for (i = 0; i < RAW_VAL_CNT; i++) { clk.tick(); clk.tock(); } on a clock
\* without values, each call one nanosecond after the call before: every
\* tock of the loop finds the clock running and room for its value
ClockLoop ==
  /\ clock.pc = "live"
  /\ clock.calls < MaxCalls
  /\ clock.raw_values = << >>
  /\ clock' = [clock EXCEPT !.running = FALSE,
                            !.now = clock.now + 2 * RAW_VAL_CNT,
                            !.start_clk = clock.now + 2 * RAW_VAL_CNT - 1,
                            !.total_ns = (clock.total_ns + RAW_VAL_CNT) % SizeModulus,
                            !.raw_values = << [n |-> RAW_VAL_CNT, v |-> 1] >>,
                            !.events = clock.events + RAW_VAL_CNT,
                            !.tocks = clock.tocks + RAW_VAL_CNT,
                            !.calls = clock.calls + 1,
                            !.last = CallSeen(clock, "loop", 0, 0)]
  /\ UNCHANGED <<pmem, env, threads, tok, scalar, freq>>

ClockNext ==
  \/ \E delay \in {1, 2} : ClockTick(delay)
  \/ \E delay \in {1, 2} : ClockTock(delay)
  \/ ClockReset
  \/ ClockReconcile
  \/ \E pct \in {0, 1, 50, 99, 100} : ClockPercentile(pct)
  \/ ClockLoop

ClockSpec == ClockNew /\ [][ClockNext]_vars

---------------------------------------------------------------------------
(* Properties *)

Mutating == {"memcpy", "memmove", "memset"}

LineStrategies == {"Clwb", "ClflushOpt"}

\* the positions of the events of the kinds K
At(K) == {i \in 1 .. Len(trace) : trace[i].ev \in K}

FlushInstrs == {"clwb", "clflushopt", "msync"}

\* C1: for every strategy, fill char c and size n, when do_check's
\* memset(src, c, n) and memcpy(dst, src, n) have both returned, dst[0..n)
\* is byte for byte src[0..n), and the first and last char of both are c.
C1_DoCheckIdentical ==
  (prog = "do_check" /\ check.step = 2 /\ pc = "ret") =>
    /\ \A i \in 0 .. check.n - 1 : Load(mem, CheckDst + i) = Load(mem, CheckSrc + i)
    /\ check.n > 0 =>
         /\ ToChar(Load(mem, CheckSrc)) = check.c
         /\ ToChar(Load(mem, CheckSrc + check.n - 1)) = check.c
         /\ ToChar(Load(mem, CheckDst)) = check.c
         /\ ToChar(Load(mem, CheckDst + check.n - 1)) = check.c

C1_Witness ==
  /\ prog = "do_check" /\ check.step = 2 /\ pc = "ret"
  /\ strategy = "Clwb"
  /\ check.n = BufLen
  /\ check.c = -1
  /\ Load(mem, CheckDst + check.n - 1) = 255

\* C2: in a mutating method of a strategy other than NoPersist the byte
\* mutation of (dest, size) comes first and once, the flush of that same
\* (dest, size) after it, every flush instruction after that, the drain
\* after all of them, and the method returns only with all three done.
C2_MutateFlushDrain ==
  (op \in Mutating /\ strategy # "NoPersist") =>
    /\ At({"std::memmove", "std::memset"}) \subseteq {1}
    /\ \A i \in At({"std::memmove", "std::memset"}) :
         trace[i].addr = args.dest /\ trace[i].size = args.size
    /\ trace # << >> => 1 \in At({"std::memmove", "std::memset"})
    /\ At({"flush"}) \subseteq {2}
    /\ \A i \in At({"flush"}) :
         trace[i].addr = args.dest /\ trace[i].size = args.size
    /\ \A i \in At(FlushInstrs) : 2 \in At({"flush"}) /\ i > 2
    /\ Cardinality(At({"drain"})) <= 1
    /\ \A i \in At({"drain"}) :
         /\ 2 \in At({"flush"})
         /\ \A j \in At({"flush"} \cup FlushInstrs) : j < i
    /\ \A i \in At({"sfence"}) : i - 1 \in At({"drain"})
    /\ pc = "ret" => At({"drain"}) # {}

C2_Witness ==
  /\ pc = "ret"
  /\ op = "memset"
  /\ strategy = "ClflushOpt"
  /\ args.dest = MemBase + 63
  /\ args.size = 2 * CL_SIZE + 1
  /\ Len(trace) = 7

\* the cache lines that hold a byte of [base, base + size)
LinesOf(base, size) ==
  {l \in (MemBase - CL_SIZE) .. (MemBase + MemSize) :
     l % CL_SIZE = 0 /\ \E a \in base .. (base + size - 1) : a >= l /\ a < l + CL_SIZE}

\* those of them that lie in the range whole
FullLinesOf(base, size) ==
  {l \in LinesOf(base, size) : l >= base /\ l + CL_SIZE <= base + size}

\* the flush instructions issued, in order
Flushed == SelectSeq(trace, LAMBDA e : e.ev \in {"clwb", "clflushopt"})

\* C3: when flush(base, size) of Clwb or ClflushOpt has run to its end,
\* every cache line that holds a byte of the range has been flushed exactly
\* once, the first flushed address is base rounded down to a multiple of 64,
\* each next one is 64 higher, and a range of k whole lines and one partial
\* line has had k + 1 flushes.
C3_FlushCoversLines ==
  (strategy \in LineStrategies /\ pc = "ret" /\ At({"flush"}) # {}) =>
    LET f == trace[CHOOSE i \in At({"flush"}) : TRUE]
        lines == LinesOf(f.addr, f.size)
        full == FullLinesOf(f.addr, f.size)
    IN /\ \A l \in lines :
            Cardinality({i \in 1 .. Len(Flushed) : Flushed[i].addr = l}) = 1
       /\ Flushed # << >> =>
            /\ Flushed[1].addr % CL_SIZE = 0
            /\ Flushed[1].addr <= f.addr
            /\ f.addr < Flushed[1].addr + CL_SIZE
       /\ \A i \in 1 .. Len(Flushed) - 1 :
            Flushed[i + 1].addr = Flushed[i].addr + CL_SIZE
       /\ Cardinality(lines \ full) = 1 => Len(Flushed) = Cardinality(full) + 1

C3_Witness ==
  /\ strategy = "ClflushOpt"
  /\ pc = "ret"
  /\ op = "flush"
  /\ args.dest = MemBase + 63
  /\ args.size = 2 * CL_SIZE + 1
  /\ Cardinality(FullLinesOf(args.dest, args.size)) = 2
  /\ Len(Flushed) = 3

\* C4: when persist(base, size) of Clwb, ClflushOpt or Msync has returned, it
\* has called flush(base, size) first and drain() after the flush.
C4_PersistFlushThenDrain ==
  (pc = "ret" /\ op = "persist" /\ strategy \in {"Clwb", "ClflushOpt", "Msync"}) =>
    /\ trace # << >>
    /\ trace[1] = Ev("flush", args.dest, 0, args.size)
    /\ \E i \in At({"drain"}) : \A j \in At({"flush"} \cup FlushInstrs) : j < i

\* C5: every call of PMemOpsClwb::streaming_wr terminates, whatever the
\* length: the call that has begun comes to its end.
C5_StreamingWrTerminates == (strategy = "Clwb" /\ op = "streaming_wr") ~> (pc \in {"ret", "exit"})

\* the streaming stores issued so far are one after the other from dest on,
\* each from the same offset of src, and end where cur_off_bytes stands
Contiguous ==
  /\ \A i \in 1 .. Len(trace) :
       /\ trace[i].ev = "stream"
       /\ trace[i].aux - trace[i].addr = args.src - args.dest
       /\ trace[i].addr = IF i = 1 THEN args.dest
                                   ELSE trace[i - 1].addr + trace[i - 1].size
  /\ trace # << >> =>
       trace[Len(trace)].addr + trace[Len(trace)].size = args.dest + cur_off_bytes

\* C6: for a length that is a multiple of 4, streaming_wr(dest, src, bytes)
\* is not ended by a fault but returns, and then dest[0..bytes) holds what src[0..bytes) held (or, read
\* weakly, what src[0..bytes) holds now); at every step of its loop the offset
\* written plus the bytes remaining is bytes, the chunks written follow each
\* other from offset 0 without gap or overlap, and no byte outside
\* [dest, dest + bytes) is written.
C6_StreamingWrCopies ==
  (strategy = "Clwb" /\ op = "streaming_wr" /\ args.size % 4 = 0) =>
    /\ err # "SIGSEGV"
    /\ pc \in {"sw_test", "sw_body"} => cur_off_bytes + remaining_bytes = args.size
    /\ pc \in {"sw_test", "sw_body", "ret"} => Contiguous
    /\ DOMAIN mem \subseteq args.dest .. (args.dest + args.size - 1)
    /\ pc = "ret" =>
         /\ DOMAIN mem = args.dest .. (args.dest + args.size - 1)
         /\ \/ \A i \in 0 .. args.size - 1 :
                 Load(mem, args.dest + i) = InitMem[args.src + i]
            \/ \A i \in 0 .. args.size - 1 :
                 Load(mem, args.dest + i) = Load(mem, args.src + i)

\* the store widths the build has a branch for
Supported ==
  {4, 8, 16} \cup (IF "__AVX__" \in defined THEN {32} ELSE {})
             \cup (IF "__AVX512F__" \in defined THEN {64, 128, 256} ELSE {})

LargestSupported == CHOOSE w \in Supported : \A v \in Supported : v <= w

\* C7: every store of streaming_wr has the largest width the build supports
\* that does not exceed the bytes remaining before it, so the widths never
\* increase, and a length that is a multiple of the largest supported width is
\* written with stores of that width only.
C7_GreedyLargestFirst ==
  (strategy = "Clwb" /\ op = "streaming_wr") =>
    /\ \A i \in 1 .. Len(trace) :
         LET rem == args.size - (trace[i].addr - args.dest)
         IN /\ trace[i].size \in Supported
            /\ trace[i].size <= rem
            /\ \A w \in Supported : w <= rem => w <= trace[i].size
    /\ \A i \in 1 .. Len(trace) - 1 : trace[i + 1].size <= trace[i].size
    /\ (pc = "ret" /\ args.size % LargestSupported = 0) =>
         /\ Len(trace) = args.size \div LargestSupported
         /\ \A i \in 1 .. Len(trace) : trace[i].size = LargestSupported

C7_Witness ==
  /\ strategy = "Clwb" /\ op = "streaming_wr"
  /\ pc = "ret"
  /\ "__AVX512F__" \in defined
  /\ args.size = 100
  /\ Len(trace) = 3
  /\ trace[1].size = 64 /\ trace[2].size = 32 /\ trace[3].size = 4

\* C8: from the entry of streaming_wr to its return the only effects are
\* streaming stores into [dest, dest + bytes): no flush call, no flush
\* instruction, no drain and no store fence is issued, and no capability
\* error is raised.
C8_StreamingWrNoFlushNoFence ==
  (strategy = "Clwb" /\ op = "streaming_wr") =>
    /\ \A i \in 1 .. Len(trace) :
         /\ trace[i].ev = "stream"
         /\ trace[i].addr >= args.dest
         /\ trace[i].addr + trace[i].size <= args.dest + args.size
    /\ DOMAIN mem \subseteq args.dest .. (args.dest + args.size - 1)
    /\ err \notin {"doesn't support clwb", "doesn't support clflushopt",
                   "doesn't support sfence"}

C8_Witness ==
  /\ strategy = "Clwb" /\ op = "streaming_wr"
  /\ pc = "ret"
  /\ args.size = 512
  /\ "__AVX512F__" \notin defined
  /\ Len(trace) >= 16
  /\ At({"flush", "drain", "sfence"} \cup FlushInstrs) = {}

\* the methods that flush, and the methods that drain
Flushing == {"flush", "persist", "memcpy", "memmove", "memset"}

Draining == {"drain", "persist", "memcpy", "memmove", "memset"}

\* the build lacks the capability flag that method o of the strategy needs
LacksCapability(o) ==
  \/ strategy = "Clwb" /\ "CLWB_AVAIL" \notin defined /\ o \in Flushing
  \/ strategy = "ClflushOpt" /\ "CLFLUSHOPT_AVAIL" \notin defined /\ o \in Flushing
  \/ strategy \in LineStrategies /\ "SFENCE_AVAIL" \notin defined /\ o \in Draining

\* C9: in a build without the capability flag a method needs (CLWB_AVAIL or
\* CLFLUSHOPT_AVAIL for the flush of its strategy, SFENCE_AVAIL for the drain
\* of both), no call of that method returns normally, a call that ends the
\* process over a capability does so with the message that names a missing
\* one, and no
\* instruction whose flag is absent, nor the other strategy's flush
\* instruction, is ever issued.
C9_MissingCapabilityFatal ==
  /\ LacksCapability(op) => pc # "ret"
  /\ (pc = "exit" /\ err \notin {"LP FATAL", "unimplemented", "SIGSEGV"}) =>
       \/ err = "doesn't support clwb" /\ strategy = "Clwb" /\ "CLWB_AVAIL" \notin defined
       \/ err = "doesn't support clflushopt" /\ strategy = "ClflushOpt"
                                             /\ "CLFLUSHOPT_AVAIL" \notin defined
       \/ err = "doesn't support sfence" /\ "SFENCE_AVAIL" \notin defined
  /\ \A i \in 1 .. Len(trace) :
       /\ trace[i].ev = "clwb" => strategy = "Clwb" /\ "CLWB_AVAIL" \in defined
       /\ trace[i].ev = "clflushopt" =>
            strategy = "ClflushOpt" /\ "CLFLUSHOPT_AVAIL" \in defined
       /\ trace[i].ev = "sfence" => "SFENCE_AVAIL" \in defined
       /\ trace[i].ev = "msync" => strategy = "Msync"

\* how often the loop of flush(d, n) runs its body
LineCount(d, n) ==
  IF d + n > d - (d % CL_SIZE)
    THEN (d + n - (d - (d % CL_SIZE)) + CL_SIZE - 1) \div CL_SIZE
    ELSE 0

\* what a move of n bytes from s to d by the strategy does, in order
MoveEffects(d, s, n) ==
  << Ev("std::memmove", d, s, n) >> \o
  CASE strategy = "NoPersist" -> << >>
    [] strategy = "Msync" ->
         << Ev("flush", d, 0, n), Ev("msync", d, MS_SYNC, n), Ev("drain", 0, 0, 0) >>
    [] OTHER ->
         << Ev("flush", d, 0, n) >> \o
         [i \in 1 .. LineCount(d, n) |->
            Ev(IF strategy = "Clwb" THEN "clwb" ELSE "clflushopt",
               d - (d % CL_SIZE) + (i - 1) * CL_SIZE, 0, 0)] \o
         << Ev("drain", 0, 0, 0), Ev("sfence", 0, 0, 0) >>

\* C10: when memcpy or memmove of any strategy has returned, dest[0..size)
\* holds what src[0..size) held before the call, also when the two ranges
\* overlap in either direction, no other byte has been written, and the
\* effects (the byte move, then the strategy's flush and drain of the
\* destination) are the same whether the call was memcpy or memmove.
C10_MoveCorrectUnderOverlap ==
  (prog = "call" /\ op \in {"memcpy", "memmove"} /\ pc = "ret") =>
    /\ \A i \in 0 .. args.size - 1 :
         Load(mem, args.dest + i) = InitMem[args.src + i]
    /\ DOMAIN mem = args.dest .. (args.dest + args.size - 1)
    /\ trace = MoveEffects(args.dest, args.src, args.size)

C10_Witness ==
  /\ prog = "call" /\ op = "memcpy" /\ pc = "ret"
  /\ strategy = "Clwb"
  /\ args.dest = args.src + 4
  /\ args.size = 130
  /\ Load(mem, args.dest + 129) = InitMem[args.src + 129]
  /\ Len(trace) = 7

\* C11: for every strategy, every char c and every size n > 0, when
\* memset(buf, c, n) has returned, every byte of buf[0..n) reads as c (and
\* holds (unsigned char)c), and no byte outside buf[0..n) has been written.
C11_MemsetFills ==
  (op = "memset" /\ pc = "ret" /\ args.size > 0) =>
    /\ \A i \in 0 .. args.size - 1 :
         /\ ToChar(Load(mem, args.dest + i)) = args.c
         /\ Load(mem, args.dest + i) \in 0 .. 255
    /\ DOMAIN mem = args.dest .. (args.dest + args.size - 1)

C11_Witness ==
  /\ op = "memset" /\ pc = "ret"
  /\ strategy = "Msync"
  /\ args.c = -1
  /\ args.size = 2 * CL_SIZE + 1
  /\ Load(mem, args.dest + args.size - 1) = 255
  /\ args.dest + args.size \notin DOMAIN mem

\* C12: with the NoPersist strategy no call ever issues a flush instruction,
\* a fence or an msync; flush, persist and drain leave memory as it was; and
\* when memcpy, memmove or memset has returned its only effect is the one
\* library mutation, with the mutated bytes in memory.
C12_NoPersistOnlyMutates ==
  strategy = "NoPersist" =>
    /\ At(FlushInstrs \cup {"sfence"}) = {}
    /\ op \in {"flush", "persist", "drain"} =>
         /\ mem = << >>
         /\ At({"std::memmove", "std::memset"}) = {}
    /\ (op \in Mutating /\ pc = "ret") =>
         /\ Len(trace) = 1
         /\ trace[1].ev = IF op = "memset" THEN "std::memset" ELSE "std::memmove"
         /\ (args.dest .. (args.dest + args.size - 1)) \subseteq DOMAIN mem
         /\ op = "memset" =>
              \A i \in 0 .. args.size - 1 : Load(mem, args.dest + i) = ToUChar(args.c)
         /\ (op # "memset" /\ prog = "call") =>
              \A i \in 0 .. args.size - 1 : Load(mem, args.dest + i) = InitMem[args.src + i]

C12_Witness ==
  /\ strategy = "NoPersist"
  /\ prog = "do_check" /\ check.step = 2 /\ pc = "ret"
  /\ check.n = BufLen
  /\ trace = << Ev("std::memmove", CheckDst, CheckSrc, BufLen) >>
  /\ Load(mem, CheckDst) = ToUChar(check.c)

\* C13: a call of drain() writes no byte and issues no flush; when it has
\* returned it has issued exactly one store fence on Clwb and ClflushOpt
\* (whose builds then have SFENCE_AVAIL) and nothing at all on Msync and
\* NoPersist.  In every method each drain() of Clwb and ClflushOpt that got
\* past its capability test is followed by its one fence, and Msync and
\* NoPersist never fence.
C13_DrainOneFence ==
  /\ op = "drain" =>
       /\ mem = << >>
       /\ At({"flush", "std::memmove", "std::memset"} \cup FlushInstrs) = {}
       /\ pc = "ret" =>
            trace = IF strategy \in LineStrategies
                      THEN << Ev("drain", 0, 0, 0), Ev("sfence", 0, 0, 0) >>
                      ELSE << Ev("drain", 0, 0, 0) >>
       /\ (pc = "ret" /\ strategy \in LineStrategies) => "SFENCE_AVAIL" \in defined
  /\ strategy \in LineStrategies =>
       /\ \A i \in At({"sfence"}) : i - 1 \in At({"drain"})
       /\ "SFENCE_AVAIL" \in defined =>
            \A i \in At({"drain"}) : i + 1 \in At({"sfence"})
  /\ strategy \notin LineStrategies => At({"sfence"}) = {}

C13_Witness ==
  /\ op = "drain" /\ pc = "ret"
  /\ strategy = "ClflushOpt"
  /\ Cardinality(At({"sfence"})) = 1

\* C15: every flush(base, size) of the Msync strategy makes exactly one
\* msync call, with the caller's base and size as they are and the flag
\* MS_SYNC; the strategy issues no cache-line flush instruction and no fence.
C15_MsyncFlushOneCall ==
  strategy = "Msync" =>
    /\ At({"clwb", "clflushopt", "sfence"}) = {}
    /\ \A i \in At({"flush"}) :
         /\ i + 1 \in At({"msync"})
         /\ trace[i + 1] = Ev("msync", trace[i].addr, MS_SYNC, trace[i].size)
    /\ \A i \in At({"msync"}) : i - 1 \in At({"flush"})
    /\ (op = "flush" /\ pc = "ret") =>
         trace = << Ev("flush", args.dest, 0, args.size),
                    Ev("msync", args.dest, MS_SYNC, args.size) >>

C15_Witness ==
  /\ strategy = "Msync"
  /\ op = "flush" /\ pc = "ret"
  /\ args.dest = MemBase + 63
  /\ args.size = 2 * CL_SIZE + 1
  /\ Cardinality(At({"msync"})) = 1
  /\ trace[2].addr = MemBase + 63 /\ trace[2].aux = MS_SYNC

\* the msync call of the running method has failed
MsyncFailed == \E i \in At({"msync"}) : MsyncResult(trace[i].addr) = -1

\* C14: when the msync call made by flush of the Msync strategy has failed,
\* the process is not ended, and the method (flush, persist, memcpy, memmove,
\* memset) that has returned has reported the failure to its caller.
C14_MsyncFailureReported ==
  (strategy = "Msync" /\ MsyncFailed) =>
    /\ pc # "exit"
    /\ pc = "ret" => err # ""

\* C16: a call of streaming_wr on the ClflushOpt, Msync or NoPersist strategy
\* never returns normally: it ends the process with the 'unimplemented'
\* error, and it writes no byte and has no other effect.
C16_StreamingWrUnimplemented ==
  (op = "streaming_wr" /\ strategy # "Clwb") =>
    /\ pc # "ret"
    /\ pc = "exit" => err = "unimplemented"
    /\ mem = << >>
    /\ trace = << >>

\* what flush(b, n) and drain() of the strategy do, in order
FlushEffects(b, n) ==
  << Ev("flush", b, 0, n) >> \o
  CASE strategy = "NoPersist" -> << >>
    [] strategy = "Msync" -> << Ev("msync", b, MS_SYNC, n) >>
    [] OTHER ->
         [i \in 1 .. LineCount(b, n) |->
            Ev(IF strategy = "Clwb" THEN "clwb" ELSE "clflushopt",
               b - (b % CL_SIZE) + (i - 1) * CL_SIZE, 0, 0)]

DrainEffects ==
  << Ev("drain", 0, 0, 0) >> \o
  (IF strategy \in LineStrategies THEN << Ev("sfence", 0, 0, 0) >> ELSE << >>)

\* what the call o(a) does when it runs alone, in order
CallEffects(o, a) ==
  CASE o = "persist" ->
         IF strategy = "NoPersist" THEN << >>
         ELSE IF strategy = "Msync" THEN FlushEffects(a.dest, a.size)
         ELSE FlushEffects(a.dest, a.size) \o DrainEffects
    [] o = "memset" ->
         << Ev("std::memset", a.dest, a.c, a.size) >> \o
         (IF strategy = "NoPersist" THEN << >>
          ELSE FlushEffects(a.dest, a.size) \o DrainEffects)
    [] o \in {"memcpy", "memmove"} ->
         << Ev("std::memmove", a.dest, a.src, a.size) >> \o
         (IF strategy = "NoPersist" THEN << >>
          ELSE FlushEffects(a.dest, a.size) \o DrainEffects)
    [] OTHER -> << >>

\* memory after the call o(a) has run alone on memory m
CallResult(m, o, a) ==
  CASE o = "memset" -> StdMemset(m, a.dest, a.c, a.size)
    [] o \in {"memcpy", "memmove"} -> StdMemmove(m, a.dest, a.src, a.size)
    [] OTHER -> m

IsPrefix(s, q) == Len(s) <= Len(q) /\ \A i \in 1 .. Len(s) : s[i] = q[i]

\* C17: threads that share one strategy object and call memset, memcpy,
\* memmove or persist on ranges of their own.  At every point of every
\* interleaving each thread's effects so far are the first effects of its call
\* run alone, in the same order (mutation, flush, drain); a thread that has
\* mutated has left in its range what its call leaves when run alone; and
\* when every thread has returned, each has had all the effects of its call
\* and memory is what the calls leave when run one after the other, in
\* either order.
C17_ThreadsDisjointRanges ==
  prog = "threads" =>
    /\ \A t \in Threads :
         LET v == View(t)
             alone == CallResult(<< >>, v.op, v.args)
         IN /\ IsPrefix(v.trace, CallEffects(v.op, v.args))
            /\ v.pc = "ret" => v.trace = CallEffects(v.op, v.args)
            /\ \A i \in 0 .. v.args.size - 1 :
                 IF v.op \in Mutating /\ v.trace # << >>
                   THEN Load(mem, v.args.dest + i) = Load(alone, v.args.dest + i)
                   ELSE v.args.dest + i \notin DOMAIN mem
    /\ (\A t \in Threads : View(t).pc = "ret") =>
         /\ mem = CallResult(CallResult(<< >>, View(1).op, View(1).args),
                             View(2).op, View(2).args)
         /\ mem = CallResult(CallResult(<< >>, View(2).op, View(2).args),
                             View(1).op, View(1).args)

\* both threads are in the middle of their calls at once: each has mutated
\* its range and is inside its flush loop, and thread 2 has already flushed
\* the cache line that the two ranges share
C17_Witness ==
  /\ prog = "threads"
  /\ strategy = "Clwb"
  /\ threads.cur = 1
  /\ pc = "flush_loop" /\ op = "memset"
  /\ Len(trace) = 3
  /\ View(2).pc = "flush_loop" /\ View(2).op = "memmove"
  /\ Load(mem, RegionBase(1)) = 1
  /\ Load(mem, RegionBase(2) + 4) = InitMem[RegionBase(2)]
  /\ \E i \in 1 .. Len(View(2).trace) :
       /\ View(2).trace[i].ev = "clwb"
       /\ View(2).trace[i].addr = RegionBase(2) - (RegionBase(2) % CL_SIZE)

\* C18: whatever NVSL_LOG_LEVEL is (not set, a level that disables the
\* lines, a level that enables them, any other text) and whether or not the
\* build is a RELEASE build, a call of persist, memcpy or memset is not ended
\* by the logging, and when it has returned it has left the memory and has
\* had the flush and fence actions that it has with logging disabled.
C18_LoggingObservabilityOnly ==
  (prog = "call" /\ op \in {"persist", "memcpy", "memset"}) =>
    /\ err # "LP FATAL"
    /\ pc = "ret" =>
         /\ trace = CallEffects(op, args)
         /\ mem = CallResult(<< >>, op, args)

\* d stands somewhere in s
Contains(s, d) == \E q \in 0 .. (Len(s) - Len(d)) : SubSeq(s, q + 1, q + Len(d)) = d

\* The pieces of s between the occurrences of d, read from the left one
\* character at a time: acc is the piece being read; empty pieces are dropped.
RECURSIVE Pieces(_, _, _)
Pieces(s, d, acc) ==
  LET done == IF acc = << >> THEN << >> ELSE << acc >>
  IN IF s = << >> THEN done
     ELSE IF IsPrefix(d, s) THEN done \o Pieces(SubSeq(s, Len(d) + 1, Len(s)), d, << >>)
     ELSE Pieces(Tail(s), d, Append(acc, Head(s)))

\* C19: for a non-empty delim, split(str, delim) returns, from left to right,
\* exactly the non-empty pieces of str between the occurrences of delim: no
\* token is empty, no token contains delim, and a delimiter at the start, at
\* the end or next to another one gives no token.
C19_SplitTokens ==
  (tok.pc = "ret" /\ tok.delim # << >>) =>
    /\ tok.result = Pieces(tok.str, tok.delim, << >>)
    /\ \A i \in 1 .. Len(tok.result) :
         /\ tok.result[i] # << >>
         /\ ~Contains(tok.result[i], tok.delim)

\* "Hello! World." split on " " gives "Hello!" and "World."
C19_Witness ==
  /\ tok.pc = "ret"
  /\ tok.str = HelloWorld
  /\ tok.delim = <<" ">>
  /\ tok.result = << <<"H", "e", "l", "l", "o", "!">>, <<"W", "o", "r", "l", "d", ".">> >>

RECURSIVE SumOf(_)
SumOf(s) == IF s = << >> THEN 0 ELSE Head(s) + SumOf(Tail(s))

\* C20: after any sequence of += and reset() on a StatsScalar, avg() is the
\* sum of the samples added since construction or the last reset divided by
\* their number, and 0 when there is none; counts() is that number; when the
\* only such sample is 100, avg() is 100.
C20_ScalarAvgCounts ==
  scalar.pc = "live" =>
    /\ Counts = Len(scalar.added)
    /\ scalar.added = << >> => Avg = [num |-> 0, den |-> 1]
    /\ scalar.added # << >> =>
         /\ Avg.den > 0
         /\ Avg.num * Len(scalar.added) = SumOf(scalar.added) * Avg.den
         /\ Gcd(Magnitude(Avg.num), Avg.den) = 1
    /\ scalar.added = <<100>> => Avg = [num |-> 100, den |-> 1]

\* one sample, a reset, then 7 and 100: avg() is 107/2 and counts() is 2
C20_Witness ==
  /\ scalar.pc = "live"
  /\ scalar.ops = 3
  /\ scalar.added = <<7, 100>>
  /\ Avg = [num |-> 107, den |-> 2]
  /\ Counts = 2

\* C21: add(val, count) adds val count times: when it has returned, total()
\* has grown by count and the counter that val falls into (its bucket, or
\* the underflow or the overflow counter) has grown by count.
C21_FreqAddCount ==
  (freq.pc = "live" /\ freq.adds > 0) =>
    /\ Total(freq) = freq.last.total + freq.last.count
    /\ Held(freq, freq.last.slot, freq.last.idx) = freq.last.held + freq.last.count

\* C28: after init, an add(val) with bucket_min <= val < bucket_max does not
\* divide by a bucket size of zero and computes a bucket index in
\* 0 .. bucket_cnt - 1, so that it writes inside the counts array.
C28_FreqBucketIndex ==
  (freq.pc \in {"live", "exit"} /\ freq.adds > 0 /\ freq.last.slot = "bucket") =>
    /\ freq.bucket_sz # 0
    /\ freq.err = ""
    /\ freq.last.idx \in 0 .. (freq.bucket_cnt - 1)
    /\ freq.strays = 0

\* the latest call was a tock that found the clock running, recorded
\* exactly one sample and stopped the clock
TockRecorded ==
  /\ clock.pc = "live"
  /\ ~clock.running
  /\ Size(clock.raw_values) = clock.last.size + 1
  /\ clock.events = clock.last.events + 1

\* the latest call ended the process without recording a sample
NothingRecorded ==
  /\ clock.pc = "exit"
  /\ Size(clock.raw_values) = clock.last.size
  /\ clock.events = clock.last.events

C26_ClockCounts ==
  clock.pc = "live" =>
    /\ clock.events = Size(clock.raw_values)
    /\ clock.events = clock.tocks
    /\ clock.total_ns = SumOfRuns(clock.raw_values)
    /\ clock.last.call = "reset" =>
         /\ ~clock.running
         /\ clock.total_ns = 0
         /\ clock.events = 0
         /\ clock.raw_values = << >>
         /\ clock.sorted_raw_values = << >>

\* a clock that held RAW_VAL_CNT + 1 values and had been reconciled has been
\* reset
C26_Witness ==
  /\ clock.pc = "live"
  /\ clock.last.call = "reset"
  /\ clock.last.size = RAW_VAL_CNT + 1
  /\ clock.last.sorted > 0
  /\ clock.events = 0

\* C27: percentile(pc) with 0 <= pc <= 100, called on a clock whose sorted
\* values are not empty, reads at an index in 0 .. sz - 1.
C27_PercentileIndexInside ==
  (clock.last.call = "percentile" /\ clock.last.sorted >= 1) =>
    clock.last.idx \in 0 .. (clock.last.sorted - 1)

\* C22: flush(base, size) of Clwb and ClflushOpt flushes only 64-byte
\* aligned addresses of cache lines that hold a byte of the range
\* base .. base + size - 1; with size 0 it issues no flush instruction,
\* whatever the alignment of base.
C22_FlushOnlyLinesOfRange ==
  (strategy \in LineStrategies /\ At({"flush"}) # {}) =>
    LET f == trace[CHOOSE i \in At({"flush"}) : TRUE]
    IN /\ \A i \in 1 .. Len(Flushed) :
            /\ Flushed[i].addr % CL_SIZE = 0
            /\ Flushed[i].addr \in LinesOf(f.addr, f.size)
       /\ f.size = 0 => Flushed = << >>

\* C23: streaming_wr of Clwb calls the 64B, 128B and 256B helpers only in a
\* build that defines __AVX512F__ and the 32B helper only in one that
\* defines __AVX__: no helper is called without its instructions compiled
\* in, and no call ends in the helpers' 'called on unsupported processor'
\* assertion, whatever the length.
C23_HelpersSupported ==
  (strategy = "Clwb" /\ op = "streaming_wr") =>
    /\ err # "called on unsupported processor"
    /\ \A i \in 1 .. Len(trace) :
         /\ trace[i].ev # "unsupported"
         /\ trace[i].ev = "stream" =>
              /\ trace[i].size = 32 => "__AVX__" \in defined
              /\ trace[i].size >= 64 => "__AVX512F__" \in defined

\* in a build with AVX and without AVX512F, 96 bytes have been written by
\* three calls of the 32B helper
C23_Witness ==
  /\ strategy = "Clwb" /\ op = "streaming_wr"
  /\ pc = "ret"
  /\ "__AVX__" \in defined /\ "__AVX512F__" \notin defined
  /\ args.size >= 64
  /\ Len(trace) >= 2
  /\ trace[1].ev = "stream" /\ trace[1].size = 32
  /\ trace[2].ev = "stream" /\ trace[2].size = 32

\* C24: when memcpy, memmove or memset of Clwb or ClflushOpt ends the
\* process with the capability error (of its flush or of its drain), the
\* copy or fill has been done before: memory holds what the call's
\* std::memmove or std::memset leaves, and that was the call's first effect.
C24_MutationBeforeFatal ==
  (/\ prog = "call"
   /\ strategy \in LineStrategies
   /\ op \in Mutating
   /\ pc = "exit"
   /\ err \in {"doesn't support clwb", "doesn't support clflushopt",
               "doesn't support sfence"}) =>
    /\ mem = CallResult(<< >>, op, args)
    /\ trace # << >>
    /\ trace[1].ev \in {"std::memmove", "std::memset"}
    /\ \A i \in 2 .. Len(trace) : trace[i].ev \notin {"std::memmove", "std::memset"}

\* a memset of 129 bytes in a build without clwb: the process has exited
\* in the first run of the flush loop and the 129 bytes are filled
C24_Witness ==
  /\ prog = "call" /\ strategy = "Clwb" /\ op = "memset"
  /\ pc = "exit" /\ err = "doesn't support clwb"
  /\ args.size = 2 * CL_SIZE + 1
  /\ Len(trace) = 2
  /\ \A i \in 0 .. (args.size - 1) : Load(mem, args.dest + i) = ToUChar(args.c)
  /\ \E i \in 0 .. (args.size - 1) : InitMem[args.dest + i] # ToUChar(args.c)

\* C29: split(str, delim) terminates for every str and every delim, the
\* empty delimiter and the empty string included: every call returns.
C29_SplitTerminates == <>(tok.pc = "ret")

===========================================================================
